---- MODULE Spec2Model ----
(***************************************************************************)
(* Model of the FARMM gantry robot placeholder (src/main.py) and of the    *)
(* simulation loop that drives it (src/visualiser.py).                     *)
(*                                                                         *)
(* Numbers: the program computes with Python floats.  The model computes   *)
(* with the same IEEE-754 doubles, bit for bit: every sum, difference,     *)
(* product and quotient is rounded as Python rounds it, so a step count    *)
(* such as 0.30000000000000004 / 0.1 = 3.0000000000000004 is what the      *)
(* program gets.                                                           *)
(*                                                                         *)
(* Objects: a task is a Python dict shared by reference between the input  *)
(* list and task_stack; the model keeps the dicts in `tasks` (keyed by     *)
(* task_id) and task_stack as the sequence of ids.  previous_location      *)
(* holds the very list objects of farmm.frame_location/tool_location       *)
(* while a move is interpolated (list(previous_location) is a shallow      *)
(* copy), which is why loop_body below reads and writes the same values.   *)
(*                                                                         *)
(* An uncaught Python exception ends the script: `error` records it and    *)
(* no action is enabled afterwards.  The effects the code made before the  *)
(* raise are kept.                                                         *)
(*                                                                         *)
(* Start: visualiser.py builds its window layout (line 122) from the name  *)
(* robot_status, which it binds at line 163 only, so the script as it      *)
(* stands ends with a NameError before the robot exists.  Init keeps that  *)
(* outcome as one initial state; its other initial states are those of     *)
(* line 171 with the name bound, from which the loop of lines 180-293 and  *)
(* the methods of RobotPlaceholder run as written.                         *)
(*                                                                         *)
(* Scope: the matplotlib drawing and frame_corners are display only and    *)
(* are left out; plot_robot is modelled by its one effect on the robot,    *)
(* the call of update_position.  The frame rotation is the driver's 0      *)
(* degrees.  popped, done, ticks, start and slice_order are history        *)
(* variables.  SpecGrid runs the same starts, the admission and the        *)
(* slicing alone, on the driver's task list and on grid tasks whose        *)
(* corners come in any order.                                              *)
(***************************************************************************)
EXTENDS Integers, Sequences, FiniteSets, TLC

----------------------------------------------------------------------------
(* Python float arithmetic: IEEE-754 binary64 with round-half-to-even.     *)
(* A double is <<s, e, hi, lo>> and stands for s * (hi * 2^26 + lo) * 2^e, *)
(* with s in {-1, 0, 1}; a nonzero double has 2^26 <= hi < 2^27 and        *)
(* 0 <= lo < 2^26, so that equal values are equal tuples. The values of    *)
(* the program stay far from overflow and underflow, so infinities, NaNs   *)
(* and subnormals are left out; -0.0 is kept as 0.0, which Python compares *)
(* equal to it.                                                            *)

\* 2^26: a double's 53-bit significand m is kept as hi * 2^26 + lo
B26 == 67108864

\* 2^n for 0 <= n <= 30
Pow2(n) == 2 ^ n

\* the double 0.0
Zero == <<0, 0, 0, 0>>

\* <<hi, lo>> shifted left by one bit
Shl1(w) == <<2 * w[1] + (2 * w[2]) \div B26, (2 * w[2]) % B26>>

\* hi * 2^26 + lo shifted right by n bits; the third component tells whether a
\* nonzero bit was shifted out
RECURSIVE ShrSticky(_, _)
ShrSticky(w, n) ==
    IF n = 0 THEN <<w[1], w[2], FALSE>>
    ELSE IF n < 26
    THEN <<w[1] \div Pow2(n),
           w[2] \div Pow2(n) + (w[1] % Pow2(n)) * Pow2(26 - n),
           w[2] % Pow2(n) # 0>>
    ELSE IF w[1] = 0 THEN <<0, 0, w[2] # 0>>
    ELSE LET r == ShrSticky(<<w[1] \div B26, w[1] % B26>>, n - 26)
         IN  <<r[1], r[2], r[3] \/ w[2] # 0>>

\* <<hi, lo>> shifted left by n bits (0 < n < 26, hi < 2^(31 - n))
Shl(w, n) ==
    <<w[1] * Pow2(n) + w[2] \div Pow2(26 - n), (w[2] % Pow2(26 - n)) * Pow2(n)>>

\* a nonzero value s * (hi * 2^26 + lo) * 2^e with fewer than 53 significant
\* bits, shifted left until it has 53
RECURSIVE NormLeft(_, _, _)
NormLeft(s, e, w) ==
    IF w[1] >= B26 THEN <<s, e, w[1], w[2]>>
    ELSE IF w[1] = 0 THEN NormLeft(s, e - 26, <<w[2], 0>>)
    ELSE IF w[1] < Pow2(13) THEN NormLeft(s, e - 13, Shl(w, 13))
    ELSE IF w[1] < Pow2(22) THEN NormLeft(s, e - 4, Shl(w, 4))
    ELSE NormLeft(s, e - 1, Shl1(w))

\* q = <<hi, lo>> is a 53- or 54-bit significand cut off after sh bits; up
\* tells whether the cut-off part rounds it up
RoundUp(s, e, q, up) ==
    IF ~up THEN <<s, e, q[1], q[2]>>
    ELSE IF q[2] + 1 < B26 THEN <<s, e, q[1], q[2] + 1>>
    ELSE IF q[1] + 1 < 2 * B26 THEN <<s, e, q[1] + 1, 0>>
    ELSE <<s, e + 1, B26, 0>>

\* the cut of sh bits: q is what stays, rem what is cut off, half is 2^(sh-1)
RoundCut(s, e, q, rem, half, sticky) ==
    RoundUp(s, e, q, rem > half \/ (rem = half /\ (sticky \/ q[2] % 2 = 1)))

RoundShift(s, e, w, sh, sticky) ==
    RoundCut(s, e + sh, ShrSticky(w, sh), w[2] % Pow2(sh), Pow2(sh - 1), sticky)

\* round-half-to-even of s * (hi * 2^26 + lo [+ a fraction, if sticky]) * 2^e
\* to 53 significant bits (hi < 2^31)
RoundPair(s, e, w, sticky) ==
    IF w[1] = 0 /\ w[2] = 0 THEN Zero
    ELSE IF w[1] < 2 * B26 THEN NormLeft(s, e, w)
    ELSE IF w[1] < 4 * B26 THEN RoundShift(s, e, w, 1, sticky)
    ELSE IF w[1] < 8 * B26 THEN RoundShift(s, e, w, 2, sticky)
    ELSE IF w[1] < 16 * B26 THEN RoundShift(s, e, w, 3, sticky)
    ELSE RoundShift(s, e, w, 4, sticky)

\* the double of a Python int (|k| < 2^26)
FInt(k) ==
    IF k = 0 THEN Zero
    ELSE NormLeft(IF k < 0 THEN -1 ELSE 1, -26, <<IF k < 0 THEN -k ELSE k, 0>>)

FNeg(a) == <<-a[1], a[2], a[3], a[4]>>

FAbs(a) == <<a[1] * a[1], a[2], a[3], a[4]>>

\* a < b for two doubles of the same sign s # 0, compared by magnitude
MagLt(a, b) ==
    \/ a[2] < b[2]
    \/ a[2] = b[2] /\ (a[3] < b[3] \/ (a[3] = b[3] /\ a[4] < b[4]))

\* Python's a < b
FLt(a, b) ==
    IF a[1] # b[1] THEN a[1] < b[1]
    ELSE IF a[1] = 0 THEN FALSE
    ELSE IF a[1] = 1 THEN MagLt(a, b) ELSE MagLt(b, a)

\* Python's a <= b
FLe(a, b) == ~FLt(b, a)

\* hi * 2^26 + lo with a carry or a borrow left in lo
Carry(hi, lo) ==
    IF lo < 0 THEN <<hi - 1, lo + B26>>
    ELSE IF lo >= B26 THEN <<hi + 1, lo - B26>>
    ELSE <<hi, lo>>

\* wa + wb or wa - wb for two aligned significands; sb = <<hi, lo, sticky>> is
\* wb, its sticky bit is folded into the lowest bit
AddAligned(s, e, wa, sb, subtract) ==
    IF subtract
    THEN RoundPair(s, e, Carry(wa[1] - sb[1],
                               wa[2] - (IF sb[3] /\ sb[2] % 2 = 0 THEN sb[2] + 1 ELSE sb[2])),
                   FALSE)
    ELSE RoundPair(s, e, Carry(wa[1] + sb[1],
                               wa[2] + (IF sb[3] /\ sb[2] % 2 = 0 THEN sb[2] + 1 ELSE sb[2])),
                   FALSE)

\* |a| + |b| or |a| - |b| (|a| >= |b|, both nonzero), with sign s: both
\* significands get three guard bits, b's is shifted to a's exponent
AddMagnitudes(s, a, b, subtract) ==
    AddAligned(s, a[2] - 3,
               <<8 * a[3] + a[4] \div Pow2(23), (8 * a[4]) % B26>>,
               ShrSticky(<<8 * b[3] + b[4] \div Pow2(23), (8 * b[4]) % B26>>, a[2] - b[2]),
               subtract)

\* Python's a + b on floats
FAdd(a, b) ==
    IF a[1] = 0 THEN b
    ELSE IF b[1] = 0 THEN a
    ELSE IF a[2] = b[2] /\ a[3] = b[3] /\ a[4] = b[4]
    THEN (IF a[1] = b[1] THEN AddMagnitudes(a[1], a, b, FALSE) ELSE Zero)
    ELSE IF MagLt(a, b) THEN AddMagnitudes(b[1], b, a, a[1] # b[1])
    ELSE AddMagnitudes(a[1], a, b, a[1] # b[1])

\* Python's a - b on floats
FSub(a, b) == FAdd(a, FNeg(b))

\* 2^13: the significands are multiplied in four digits of 13 bits each
T13 == 8192

\* the digits of the column sums d, lowest first, after the carries; the last
\* digit keeps what is left
RECURSIVE Carries(_, _, _)
Carries(d, k, carry) ==
    IF k = Len(d) THEN <<d[k] + carry>>
    ELSE <<(d[k] + carry) % T13>> \o Carries(d, k + 1, (d[k] + carry) \div T13)

\* the 106-bit product g (seven digits) cut to its upper bits, the rest sticky
MulRound(s, e, g) ==
    RoundPair(s, e,
              <<g[7] * 4 + g[6] \div Pow2(11),
                (g[6] % Pow2(11)) * Pow2(15) + g[5] * 4 + g[4] \div Pow2(11)>>,
              g[1] # 0 \/ g[2] # 0 \/ g[3] # 0 \/ g[4] % Pow2(11) # 0)

\* the column sums of the product of the digits x and y, lowest first
MulDigits(s, e, x, y) ==
    MulRound(s, e,
        Carries(<<x[1] * y[1],
                  x[1] * y[2] + x[2] * y[1],
                  x[1] * y[3] + x[2] * y[2] + x[3] * y[1],
                  x[1] * y[4] + x[2] * y[3] + x[3] * y[2] + x[4] * y[1],
                  x[2] * y[4] + x[3] * y[3] + x[4] * y[2],
                  x[3] * y[4] + x[4] * y[3],
                  x[4] * y[4]>>, 1, 0))

\* Python's a * b on floats
FMul(a, b) ==
    IF a[1] = 0 \/ b[1] = 0 THEN Zero
    ELSE MulDigits(a[1] * b[1], a[2] + b[2] + 50,
                   <<a[4] % T13, a[4] \div T13, a[3] % T13, a[3] \div T13>>,
                   <<b[4] % T13, b[4] \div T13, b[3] % T13, b[3] \div T13>>)

\* one step of the long division: d is <<q hi, q lo, r hi, r lo>> with the
\* quotient and the remainder doubled, mb the divisor
DivStep(d, mb) ==
    IF d[3] > mb[1] \/ (d[3] = mb[1] /\ d[4] >= mb[2])
    THEN IF d[4] < mb[2]
         THEN <<d[1], d[2] + 1, d[3] - mb[1] - 1, d[4] - mb[2] + B26>>
         ELSE <<d[1], d[2] + 1, d[3] - mb[1], d[4] - mb[2]>>
    ELSE d

\* binary long division by hi * 2^26 + lo = mb: <<q hi, q lo, r hi, r lo>>
\* after n more steps from st (whose remainder is never negative)
RECURSIVE LongDiv(_, _, _)
LongDiv(n, st, mb) ==
    IF n = 0 \/ st[3] < 0 THEN st
    ELSE LongDiv(n - 1,
                 DivStep(<<2 * st[1] + (2 * st[2]) \div B26, (2 * st[2]) % B26,
                           2 * st[3] + (2 * st[4]) \div B26, (2 * st[4]) % B26>>, mb),
                 mb)

\* the quotient of the significands to 56 bits, rounded; a remainder is sticky
DivRound(s, e, st) ==
    RoundPair(s, e, <<st[1], st[2]>>, st[3] # 0 \/ st[4] # 0)

\* Python's a / b on floats, b # 0
FDiv(a, b) ==
    IF a[1] = 0 THEN Zero
    ELSE DivRound(a[1] * b[1], a[2] - b[2] - 55,
                  LongDiv(55,
                          IF a[3] < b[3] \/ (a[3] = b[3] /\ a[4] < b[4])
                          THEN <<0, 0, a[3], a[4]>>
                          ELSE IF a[4] < b[4]
                          THEN <<0, 1, a[3] - b[3] - 1, a[4] - b[4] + B26>>
                          ELSE <<0, 1, a[3] - b[3], a[4] - b[4]>>,
                          <<b[3], b[4]>>))

FMax(a, b) == IF FLt(a, b) THEN b ELSE a

\* max([a, b, c])
FMax3(a, b, c) == FMax(FMax(a, b), c)

\* the double nearest to n/d: the value of a decimal literal such as 0.1
F(n, d) == FDiv(FInt(n), FInt(d))

----------------------------------------------------------------------------
(* Program constants.                                                      *)

\* self.dimensions = [0.4, 1, 0.6]: width (x), depth (y), height (z)
dimensions == <<F(2, 5), F(1, 1), F(3, 5)>>

\* "The tool travels at 0.1m/s"
tool_speed == F(1, 10)

\* "The frame travels at 0.2m/s"
frame_speed == F(1, 5)

\* steps_required = 5 for a tool command
ToolSteps == 5

\* the third argument of RobotPlaceholder(...) in the driver
rotation == 0

\* the two entries of the module-level task_queue carry the ids 0 and 1
TaskIds == {0, 1}

\* absence of the "motion_steps" key in a task dict
NoKey == -1

----------------------------------------------------------------------------
(* Inputs: the shapes of the submitted tasks and the pose given to the     *)
(* RobotPlaceholder constructor.                                           *)

\* largest grid count per axis among the submitted grid tasks
MaxGrid == 2

\* task["location"] is kept as a sequence of 2-D points in both variants: the
\* one point of a "point" task, the two corners of a "grid" task
Point(x, y) ==
    [location_type |-> "point", location |-> <<<<x, y>>>>, grid_points |-> <<>>]

Grid(c0, c1, nx, ny) ==
    [location_type |-> "grid", location |-> <<c0, c1>>, grid_points |-> <<nx, ny>>]

\* the point of the driver's task 0, a point on the lower edge of the band of
\* a frame at y = 0, and a point inside the band of both poses below
PointShapes ==
    { Point(F(1, 2), F(1, 5)), Point(F(1, 2), F(0, 1)), Point(F(1, 2), F(3, 5)) }

\* grids over one bounding box, with up to MaxGrid points
GridShapes ==
    { Grid(<<F(1, 2), F(1, 5)>>, <<F(11, 10), F(4, 5)>>, n[1], n[2]) :
        n \in { m \in (1..MaxGrid) \X (1..MaxGrid) : m[1] * m[2] <= MaxGrid } }

Shapes == PointShapes \cup GridShapes

\* task_queue[1] of src/main.py: corners [[1.2,0.1],[1.5,1.0]], grid_points [2,3]
DriverGrid == Grid(<<F(6, 5), F(1, 10)>>, <<F(3, 2), F(1, 1)>>, 2, 3)

\* task_queue as src/main.py builds it: the point [0.5, 0.2], then the grid
DriverShapes == [id \in TaskIds |-> IF id = 0 THEN Point(F(1, 2), F(1, 5)) ELSE DriverGrid]

\* the submitted task lists: the driver's own, and every pair of the shapes above
Queues == [TaskIds -> Shapes] \cup {DriverShapes}

\* <<frame_location, tool_location>>: the driver's pose, and the same tool
\* pose in a frame whose fixed y is 0.3
Poses ==
    { << <<Zero, Zero, Zero>>, <<F(1, 5), F(1, 5), F(1, 10)>> >>,
      << <<Zero, F(3, 10), Zero>>, <<F(1, 5), F(1, 5), F(1, 10)>> >> }

----------------------------------------------------------------------------
(* State.                                                                  *)

VARIABLES
    frame_location,     \* farmm.frame_location [x, y, z]
    tool_location,      \* farmm.tool_location [x, y, z]
    true_location,      \* farmm.true_location, <<>> before the first update_position
    tasks,              \* the task dicts, by task_id
    pending,            \* ids of the task dicts not yet handed to the robot, in order
    task_stack,         \* farmm.task_stack, as ids
    motion_stack,       \* farmm.motion_stack
    robot_status,       \* status text of the driver
    previous_location,  \* <<frame, tool>> where the last move ended (or is now)
    next_location,      \* <<>> or <<frame, tool>> target of the move in flight
    steps_required,     \* a double
    steps_done,         \* natural
    tool_active,
    sim_running,
    error,              \* "none", or the exception that ended the script
    popped,             \* history: commands removed from the front, per task_id
    done,               \* history: what the last loop iteration completed
    ticks,              \* history: executor steps spent on the command in flight
    start,              \* history: previous_location when the last Move was taken
    slice_order         \* history: ids of the sliced tasks, in slicing order

vars ==
    <<frame_location, tool_location, true_location, tasks, pending, task_stack,
      motion_stack, robot_status, previous_location, next_location, steps_required,
      steps_done, tool_active, sim_running, error, popped, done, ticks, start,
      slice_order>>

robot_vars == <<frame_location, tool_location, true_location>>

gui_vars ==
    <<robot_status, previous_location, next_location, steps_required, steps_done,
      tool_active, sim_running, done, ticks, start>>

\* a motion command [tool x, tool y, tool z, frame x, frame y, task_id]
MoveCmd(tx, ty, tz, fx, fy, id) ==
    [tool |-> FALSE, p |-> <<tx, ty, tz, fx, fy>>, task_id |-> id]

\* ["Tool","Tool","Tool","Tool","Tool", task_id]
ToolCmd(id) == [tool |-> TRUE, p |-> <<>>, task_id |-> id]

\* nothing was completed by the last loop iteration
NoneDone ==
    [kind |-> "none", ticks |-> 0, from |-> <<>>, target |-> <<>>, task_id |-> NoKey]

\* a task dict of the module-level task_queue, before it is sliced
TaskDict(shape, id) ==
    [task_status |-> "Awaiting slicing",
     location_type |-> shape.location_type,
     location |-> shape.location,
     grid_points |-> shape.grid_points,
     task_id |-> id,
     motion_steps |-> NoKey]

\* visualiser.py run as it stands: `from main import *` builds task_queue, then
\* the window layout of line 122 reads robot_status, which is bound at line 163
\* only. The NameError ends the script before line 155 constructs the robot, so
\* every variable of the robot and of the loop is unbound (<<>>, "", 0, FALSE).
InitAsWritten ==
    /\ tasks = [id \in TaskIds |-> TaskDict(DriverShapes[id], id)]
    /\ frame_location = <<>>
    /\ tool_location = <<>>
    /\ previous_location = <<>>
    /\ error = "NameError"

\* The state at line 171 when the name of line 122 is bound before the layout
\* is built: RobotPlaceholder(frame, tool, 0) of line 155 and the assignments of
\* lines 163-171. Lines 156-158 (admit the whole task_queue, slice each task in
\* order) are the first steps of Next, taken here in any order and at any time.
InitConstructed ==
    /\ \E pose \in Poses :
        /\ frame_location = pose[1]
        /\ tool_location = pose[2]
        /\ previous_location = pose
    /\ \E sh \in Queues :
        tasks = [id \in TaskIds |-> TaskDict(sh[id], id)]
    /\ error = "none"

Init ==
    /\ InitAsWritten \/ InitConstructed
    /\ true_location = <<>>
    /\ pending = <<0, 1>>
    /\ task_stack = <<>>
    /\ motion_stack = <<>>
    /\ robot_status = ""
    /\ next_location = <<>>
    /\ steps_required = Zero
    /\ steps_done = 0
    /\ tool_active = FALSE
    /\ sim_running = FALSE
    /\ popped = [id \in TaskIds |-> 0]
    /\ done = NoneDone
    /\ ticks = 0
    /\ start = <<>>
    /\ slice_order = <<>>

----------------------------------------------------------------------------
(* RobotPlaceholder.process_instruction_stack                              *)

\* the caller hands over the next n task dicts of its list; each is appended
process_instruction_stack(n) ==
    /\ error = "none"
    /\ n \in 1..Len(pending)
    /\ task_stack' = task_stack \o SubSeq(pending, 1, n)
    /\ pending' = SubSeq(pending, n + 1, Len(pending))
    /\ UNCHANGED <<robot_vars, gui_vars, tasks, motion_stack, error, popped, slice_order>>

----------------------------------------------------------------------------
(* RobotPlaceholder.slice_motion                                           *)

\* the target points of a task, in the order the code generates them
task_locations(task) ==
    IF task.location_type = "point"
    THEN <<task.location[1]>>
    ELSE LET bounding_box == task.location
             grid_points == task.grid_points
             x_spacing == FDiv(FAbs(FSub(bounding_box[2][1], bounding_box[1][1])),
                               FInt(grid_points[1]))
             y_spacing == FDiv(FAbs(FSub(bounding_box[2][2], bounding_box[1][2])),
                               FInt(grid_points[2]))
         IN  [k \in 1..(grid_points[1] * grid_points[2]) |->
                LET x == (k - 1) \div grid_points[2]
                    y == (k - 1) % grid_points[2]
                IN  <<FAdd(bounding_box[1][1], FMul(FInt(x), x_spacing)),
                      FAdd(bounding_box[1][2], FMul(FInt(y), y_spacing))>>]

\* inaccessible, with the lower edge of the band forgotten
inaccessible_upper_only(i, fl) ==
    FLt(FAdd(fl[2], dimensions[2]), i[2])

\* "Task location is inaccessible from the robot": the test of line 148
inaccessible(i, fl) ==
    FLt(i[2], fl[2]) \/ FLt(FAdd(fl[2], dimensions[2]), i[2])

valid_task_locations(task, fl) ==
    SelectSeq(task_locations(task), LAMBDA i : ~inaccessible(i, fl))

\* centre_of_task_locations[c] += i[c], from 0, in the order of the list
RECURSIVE SumCoord(_, _)
SumCoord(locs, c) ==
    IF locs = <<>> THEN Zero
    ELSE FAdd(SumCoord(SubSeq(locs, 1, Len(locs) - 1), c), locs[Len(locs)][c])

\* centre_of_task_locations[0] after lines 157 and 160 (valid is not empty)
centre_x(valid) ==
    FSub(FDiv(SumCoord(valid, 1), FInt(Len(valid))), FDiv(dimensions[1], FInt(2)))

\* "copying either current location or location at end of motion stack"
tail_position ==
    IF Len(motion_stack) = 0
    THEN <<tool_location[1], tool_location[2], tool_location[3],
           frame_location[1], frame_location[2]>>
    ELSE motion_stack[Len(motion_stack)].p

\* "move tool to neutral position. Fully raised, right hand side."
neutral_move(position, id) ==
    MoveCmd(position[1], Zero, dimensions[3], position[4], position[5], id)

\* centring_move, with the frame sent to y = 0
centring_move_y_zero(cx, id) ==
    MoveCmd(tool_location[1], Zero, dimensions[3], cx, Zero, id)

\* "Move the frame so the centre lines up with the centre of the task envelope"
centring_move(cx, id) ==
    MoveCmd(tool_location[1], Zero, dimensions[3], cx, frame_location[2], id)

\* point_commands, firing the tool before lowering it
point_commands_fire_first(i, cx, position, id) ==
    << MoveCmd(FSub(i[1], cx), i[2], dimensions[3], cx, position[5], id),
       ToolCmd(id),
       MoveCmd(FSub(i[1], cx), i[2], Zero, cx, position[5], id),
       MoveCmd(FSub(i[1], cx), i[2], dimensions[3], cx, position[5], id) >>

\* "For each task: move over it, lower down, fire tool, rise up"
point_commands(i, cx, position, id) ==
    << MoveCmd(FSub(i[1], cx), i[2], dimensions[3], cx, position[5], id),
       MoveCmd(FSub(i[1], cx), i[2], Zero, cx, position[5], id),
       ToolCmd(id),
       MoveCmd(FSub(i[1], cx), i[2], dimensions[3], cx, position[5], id) >>

RECURSIVE all_point_commands(_, _, _, _)
all_point_commands(valid, cx, position, id) ==
    IF valid = <<>> THEN <<>>
    ELSE point_commands(valid[1], cx, position, id)
            \o all_point_commands(Tail(valid), cx, position, id)

\* count_steps, counting three commands per point
count_steps_three(valid) == 1 + 1 + 3 * Len(valid)

\* the value of `steps` at line 192
count_steps(valid) == 1 + 1 + 4 * Len(valid)

\* The task is one of task_stack that has not been sliced (the driver slices
\* each task of task_stack once).  With no reachable point, line 157 divides
\* by zero after the neutral move has been appended.
slice_motion(id) ==
    /\ error = "none"
    /\ \E k \in 1..Len(task_stack) : task_stack[k] = id
    /\ tasks[id].motion_steps = NoKey
    /\ LET position == tail_position
           valid == valid_task_locations(tasks[id], frame_location)
       IN  IF Len(valid) = 0
           THEN /\ motion_stack' = Append(motion_stack, neutral_move(position, id))
                /\ error' = "ZeroDivisionError"
                /\ UNCHANGED <<tasks, slice_order>>
           ELSE /\ motion_stack' =
                      motion_stack
                        \o <<neutral_move(position, id), centring_move(centre_x(valid), id)>>
                        \o all_point_commands(valid, centre_x(valid), position, id)
                /\ tasks' = [tasks EXCEPT ![id].motion_steps = count_steps(valid)]
                /\ slice_order' = Append(slice_order, id)
                /\ UNCHANGED error
    /\ UNCHANGED <<robot_vars, gui_vars, pending, task_stack, popped>>

----------------------------------------------------------------------------
(* RobotPlaceholder.update_task_queue and update_position                  *)

\* sum(x == i["task_id"] for x in task_ids_in_queue)
count_in_queue(id, ms) == Cardinality({k \in 1..Len(ms) : ms[k].task_id = id})

\* derive_status, off by one in the first comparison
derive_status_off_by_one(count, task) ==
    IF count >= task.motion_steps - 1 THEN "In queue"
    ELSE IF count > 0 /\ count < task.motion_steps THEN "In progress"
    ELSE IF count = 0 THEN "Complete"
    ELSE task.task_status

\* derive_status, stepping on from the stored status instead of the count
derive_status_stepping(count, task) ==
    IF count = task.motion_steps
    THEN (IF task.task_status = "In queue" THEN "In progress" ELSE "In queue")
    ELSE IF count > 0 /\ count < task.motion_steps THEN "In progress"
    ELSE IF count = 0 THEN "Complete"
    ELSE task.task_status

\* derive_status, with the first two labels exchanged
derive_status_swapped(count, task) ==
    IF count = task.motion_steps THEN "In progress"
    ELSE IF count > 0 /\ count < task.motion_steps THEN "In queue"
    ELSE IF count = 0 THEN "Complete"
    ELSE task.task_status

\* the if/elif chain of lines 37-42 for a task dict that has "motion_steps"
derive_status(count, task) ==
    IF count = task.motion_steps THEN "In queue"
    ELSE IF count > 0 /\ count < task.motion_steps THEN "In progress"
    ELSE IF count = 0 THEN "Complete"
    ELSE task.task_status

\* position in ts of the first task dict without "motion_steps" (i["motion_steps"]
\* raises KeyError there), 0 when every task has the key
first_unsliced(tk, ts) ==
    IF \E k \in 1..Len(ts) : tk[ts[k]].motion_steps = NoKey
    THEN CHOOSE k \in 1..Len(ts) :
            /\ tk[ts[k]].motion_steps = NoKey
            /\ \A j \in 1..(k - 1) : tk[ts[j]].motion_steps # NoKey
    ELSE 0

\* the task dicts after the loop of lines 35-42 (up to the raise, if any)
statuses_after(tk, ts, ms) ==
    LET stop == first_unsliced(tk, ts)
        last == IF stop = 0 THEN Len(ts) ELSE stop - 1
    IN  [id \in DOMAIN tk |->
            IF \E k \in 1..last : ts[k] = id
            THEN [tk[id] EXCEPT !.task_status = derive_status(count_in_queue(id, ms), tk[id])]
            ELSE tk[id]]

\* without_complete, removing nothing
without_complete_keeps_all(tk, ts) == ts

\* new_task_stack of line 44
without_complete(tk, ts) ==
    SelectSeq(ts, LAMBDA id : tk[id].task_status # "Complete")

\* update_task_queue on task dicts tk, task_stack ts, motion_stack ms
update_task_queue(tk, ts, ms) ==
    LET tk1 == statuses_after(tk, ts, ms)
    IN  IF first_unsliced(tk, ts) # 0
        THEN [tasks |-> tk1, task_stack |-> ts, error |-> "KeyError"]
        ELSE [tasks |-> tk1, task_stack |-> without_complete(tk1, ts), error |-> "none"]

\* np.cos(np.deg2rad(self.rotation)) and np.sin(np.deg2rad(self.rotation)) at the
\* rotation of the driver, 0 degrees
cos_rotation == F(1, 1)

sin_rotation == Zero

\* self.true_location of lines 57-67
kinematic(fl, tl) ==
    << FSub(FAdd(fl[1], FMul(tl[1], cos_rotation)), FMul(tl[2], sin_rotation)),
       FAdd(FAdd(fl[2], FMul(tl[2], cos_rotation)), FMul(tl[1], sin_rotation)),
       tl[3] >>

\* update_position: the queue is refreshed first; a KeyError leaves the rest undone
update_position ==
    /\ error = "none"
    /\ LET q == update_task_queue(tasks, task_stack, motion_stack)
       IN  /\ tasks' = q.tasks
           /\ task_stack' = q.task_stack
           /\ error' = q.error
           /\ true_location' =
                 IF q.error = "none" THEN kinematic(frame_location, tool_location)
                 ELSE true_location
    /\ UNCHANGED <<frame_location, tool_location, gui_vars, pending, motion_stack, popped,
                   slice_order>>

----------------------------------------------------------------------------
(* The simulation loop of the driver: one action per iteration.            *)

Events == {"timeout", "-START-", "-PAUSE-"}

\* lines 201-204: updated_location[i][j] += percent * (next[i][j] - previous[i][j]),
\* where updated_location[i] and previous_location[i] are the same list
interpolate(prev, next, percent) ==
    [i \in 1..2 |->
        [j \in 1..3 |-> FAdd(prev[i][j], FMul(percent, FSub(next[i][j], prev[i][j])))]]

\* next_location = [[next_point[3], next_point[4], 0], next_point[0:3]]
location_of(next_point) ==
    << <<next_point.p[4], next_point.p[5], Zero>>,
       <<next_point.p[1], next_point.p[2], next_point.p[3]>> >>

max_distance(a, b) ==
    FMax3(FAbs(FSub(a[1], b[1])), FAbs(FSub(a[2], b[2])), FAbs(FSub(a[3], b[3])))

\* lines 245-260: "Determine how long the action will take"
steps_for_move(prev, next) ==
    LET max_frame_distance == max_distance(prev[1], next[1])
        max_tool_distance == max_distance(prev[2], next[2])
    IN  IF FLt(max_frame_distance, max_tool_distance)
        THEN FDiv(max_tool_distance, tool_speed)
        ELSE FDiv(max_frame_distance, frame_speed)

\* lines 278-288; the text is kept when no branch applies
status_text(old, prev, next, tact) ==
    IF next = <<>> /\ ~tact THEN "Inactive"
    ELSE IF next = <<>> /\ tact THEN "Tool running"
    ELSE IF next[1] = prev[1] /\ next[2] # prev[2] THEN "Tool moving inside frame"
    ELSE IF next[1] # prev[1] /\ next[2] = prev[2] THEN "Frame moving, tool stationary"
    ELSE IF next[1] # prev[1] /\ next[2] # prev[2] THEN "Both tool and frame moving"
    ELSE old

\* move_ended, already at half of the motion
move_ended_halfway(percent) == FLe(F(1, 2), percent)

\* line 210: the motion has ended
move_ended(percent) == FLe(FInt(1), percent)

\* fire_ended, with > for >=
fire_ended_strict(sd, sreq) == FLt(sreq, FInt(sd))

\* line 223: the tool has fired long enough
fire_ended(sd, sreq) == FLe(sreq, FInt(sd))

\* steps_done after a completed command (lines 215 and 226)
steps_done_reset == 0

\* The elif chain (lines 182-228) when it raises ZeroDivisionError at line 198:
\* steps_done has been incremented, nothing else has happened.
loop_zero_division ==
    /\ steps_done' = steps_done + 1
    /\ error' = "ZeroDivisionError"
    /\ UNCHANGED <<robot_vars, tasks, pending, task_stack, motion_stack, robot_status,
                   previous_location, next_location, steps_required, tool_active,
                   sim_running, popped, done, ticks, start, slice_order>>

\* lines 194-217, "Move the robot": updated_location after the loop of line
\* 202 and the test of line 210 decide what the branch leaves behind
move_branch(updated, ended) ==
    [sim_running |-> sim_running,
     steps_done |-> IF ended THEN steps_done_reset ELSE steps_done + 1,
     frame_location |-> updated[1],
     tool_location |-> updated[2],
     previous_location |-> IF ended THEN next_location ELSE updated,
     next_location |-> IF ended THEN <<>> ELSE next_location,
     tool_active |-> tool_active,
     steps_required |-> IF ended THEN Zero ELSE steps_required,
     motion_stack |-> IF ended THEN Tail(motion_stack) ELSE motion_stack,
     stepped |-> TRUE,
     ended |-> ended,
     kind |-> "Move"]

\* lines 219-228, "Fire the tool, increasing the number of steps done"
tool_branch(ended) ==
    [sim_running |-> sim_running,
     steps_done |-> IF ended THEN steps_done_reset ELSE steps_done + 1,
     frame_location |-> frame_location,
     tool_location |-> tool_location,
     previous_location |-> previous_location,
     next_location |-> next_location,
     tool_active |-> IF ended THEN FALSE ELSE tool_active,
     steps_required |-> IF ended THEN Zero ELSE steps_required,
     motion_stack |-> IF ended THEN Tail(motion_stack) ELSE motion_stack,
     stepped |-> TRUE,
     ended |-> ended,
     kind |-> "Tool"]

\* lines 182-192 and a timeout that takes no branch: only sim_running may change
no_branch(running) ==
    [sim_running |-> running,
     steps_done |-> steps_done,
     frame_location |-> frame_location,
     tool_location |-> tool_location,
     previous_location |-> previous_location,
     next_location |-> next_location,
     tool_active |-> tool_active,
     steps_required |-> steps_required,
     motion_stack |-> motion_stack,
     stepped |-> FALSE,
     ended |-> FALSE,
     kind |-> "none"]

\* percent = steps_done/steps_required of line 198, then the loop of line 202
move_by(percent) ==
    move_branch(interpolate(previous_location, next_location, percent),
                move_ended(percent))

\* the elif chain, lines 182-228: the driver's variables after it
elif_chain(event) ==
    IF event = "-START-" THEN no_branch(TRUE)
    ELSE IF event = "-PAUSE-" THEN no_branch(FALSE)
    ELSE IF next_location # <<>> /\ ~tool_active /\ sim_running
    THEN move_by(FDiv(FInt(steps_done + 1), steps_required))
    ELSE IF tool_active /\ sim_running
    THEN tool_branch(fire_ended(steps_done + 1, steps_required))
    ELSE no_branch(sim_running)

\* lines 230-260, "Select the next point from the motion stack and implement
\* it", on the variables c left by the elif chain
select_point(c) ==
    LET select == /\ Len(c.motion_stack) # 0 /\ c.next_location = <<>>
                  /\ ~c.tool_active /\ c.sim_running
        next_point == c.motion_stack[1]
    IN  IF ~select
        THEN [select |-> FALSE, tool_active |-> c.tool_active,
              next_location |-> c.next_location, steps_required |-> c.steps_required]
        ELSE IF next_point.tool
        THEN [select |-> TRUE, tool_active |-> TRUE,
              next_location |-> c.next_location, steps_required |-> FInt(ToolSteps)]
        ELSE [select |-> TRUE, tool_active |-> c.tool_active,
              next_location |-> location_of(next_point),
              steps_required |->
                  steps_for_move(c.previous_location, location_of(next_point))]

\* lines 262-290: c and s are what the elif chain and the selection left, q is
\* the task queue after the update_position of plot_robot (line 274)
draw_and_status(c, s, q) ==
    /\ sim_running' = c.sim_running
    /\ steps_done' = c.steps_done
    /\ frame_location' = c.frame_location
    /\ tool_location' = c.tool_location
    /\ previous_location' = c.previous_location
    /\ next_location' = s.next_location
    /\ tool_active' = s.tool_active
    /\ steps_required' = s.steps_required
    /\ motion_stack' = c.motion_stack
    /\ tasks' = q.tasks
    /\ task_stack' = q.task_stack
    /\ error' = q.error
    /\ true_location' = IF q.error = "none"
                        THEN kinematic(c.frame_location, c.tool_location)
                        ELSE true_location
    /\ robot_status' = IF q.error = "none"
                       THEN status_text(robot_status, c.previous_location,
                                        s.next_location, s.tool_active)
                       ELSE robot_status
    /\ popped' = IF c.ended
                 THEN [popped EXCEPT ![motion_stack[1].task_id] = @ + 1]
                 ELSE popped
    /\ done' = IF c.ended
               THEN [kind |-> c.kind,
                     ticks |-> ticks + 1,
                     from |-> IF c.kind = "Move" THEN start ELSE <<>>,
                     target |-> IF c.kind = "Move" THEN next_location ELSE <<>>,
                     task_id |-> motion_stack[1].task_id]
               ELSE NoneDone
    /\ ticks' = IF s.select THEN 0
                ELSE IF c.stepped THEN ticks + 1 ELSE ticks
    /\ start' = IF s.select /\ s.next_location # <<>> THEN c.previous_location ELSE start
    /\ UNCHANGED <<pending, slice_order>>

select_and_draw(c) ==
    draw_and_status(c, select_point(c),
                    update_task_queue(tasks, task_stack, c.motion_stack))

\* One iteration of `while True` for a given event, without the raise above.
loop_body(event) == select_and_draw(elif_chain(event))

main_loop(event) ==
    /\ error = "none"
    /\ IF /\ event = "timeout" /\ next_location # <<>> /\ ~tool_active /\ sim_running
          /\ steps_required = Zero
       THEN loop_zero_division
       ELSE loop_body(event)

----------------------------------------------------------------------------

Admit == \E n \in 1..Len(pending) : process_instruction_stack(n)

Slice == \E id \in TaskIds : slice_motion(id)

Refresh == update_position

Start == main_loop("-START-")

Pause == main_loop("-PAUSE-")

Tick == main_loop("timeout")

Next == Admit \/ Slice \/ Refresh \/ Start \/ Pause \/ Tick

Spec == Init /\ [][Next]_vars

----------------------------------------------------------------------------
(* Slicing alone: the start of the script, process_instruction_stack and   *)
(* slice_motion, on the driver's task list and on grid tasks whose two     *)
(* corners come in any order.                                              *)

\* the two corners of a bounding box, in each of the four orders
GridCorners ==
    { << <<x[1], y[1]>>, <<x[2], y[2]>> >> :
        x \in { <<F(1, 2), F(11, 10)>>, <<F(11, 10), F(1, 2)>> },
        y \in { <<F(1, 5), F(4, 5)>>, <<F(4, 5), F(1, 5)>> } }

\* grids with up to MaxGrid points per axis, and the grid of the driver's task 1
GridInputs ==
    { Grid(c[1], c[2], n[1], n[2]) : c \in GridCorners, n \in (1..MaxGrid) \X (1..MaxGrid) }
        \cup {DriverGrid}

\* the submitted task lists: the driver's own, and every pair of the grids above
GridQueues == [TaskIds -> GridInputs] \cup {DriverShapes}

\* the state at line 171 as in InitConstructed, the task list one of GridQueues
InitGridConstructed ==
    /\ \E pose \in Poses :
        /\ frame_location = pose[1]
        /\ tool_location = pose[2]
        /\ previous_location = pose
    /\ \E sh \in GridQueues :
        tasks = [id \in TaskIds |-> TaskDict(sh[id], id)]
    /\ error = "none"

\* the starts of Init: the script as it stands (NameError at line 122), or the
\* robot constructed with a task list of GridQueues
InitGrid ==
    /\ InitAsWritten \/ InitGridConstructed
    /\ true_location = <<>>
    /\ pending = <<0, 1>>
    /\ task_stack = <<>>
    /\ motion_stack = <<>>
    /\ robot_status = ""
    /\ next_location = <<>>
    /\ steps_required = Zero
    /\ steps_done = 0
    /\ tool_active = FALSE
    /\ sim_running = FALSE
    /\ popped = [id \in TaskIds |-> 0]
    /\ done = NoneDone
    /\ ticks = 0
    /\ start = <<>>
    /\ slice_order = <<>>

NextGrid == Admit \/ Slice

SpecGrid == InitGrid /\ [][NextGrid]_vars

----------------------------------------------------------------------------
(* Vocabulary of the properties.                                           *)

Sliced(id) == tasks[id].motion_steps # NoKey

InTaskStack(id) == \E k \in 1..Len(task_stack) : task_stack[k] = id

Status(id) == tasks[id].task_status

Remaining(id) == count_in_queue(id, motion_stack)

\* the executor has taken the front command and not yet removed it
InFlight == next_location # <<>> \/ tool_active

Rank(st) ==
    CASE st = "Awaiting slicing" -> 0
      [] st = "In queue" -> 1
      [] st = "In progress" -> 2
      [] st = "Complete" -> 3

\* the target points of a task whose y lies in [frame_y, frame_y + depth]
InBand(pt) ==
    FLe(frame_location[2], pt[2]) /\ FLe(pt[2], FAdd(frame_location[2], dimensions[2]))

\* Two doubles are taken for the same number when they differ by no more than
\* this: far above the rounding of the sums and products of the program, far
\* below its steps of a few centimetres
Tolerance == F(1, 1000000)

Near(a, b) == FLe(FAbs(FSub(a, b)), Tolerance)

\* two frame or tool triples whose coordinates are near each other
NearTriple(u, v) == \A j \in 1..3 : Near(u[j], v[j])

ReachableCount(id) ==
    LET pts == task_locations(tasks[id])
    IN  Cardinality({j \in 1..Len(pts) : InBand(pts[j])})

----------------------------------------------------------------------------
(* C1 *)

\* C1 (as stated): whenever a task's status is "In queue", none of its commands
\* has started executing: the executor has not spent a step on a command of the
\* task, and none of the task's commands has been removed.
C1_InQueueMeansNotStarted ==
    \A id \in TaskIds :
        Status(id) = "In queue" =>
            /\ popped[id] = 0
            /\ ~(InFlight /\ ticks >= 1 /\ motion_stack[1].task_id = id)

\* C1 (amended): whenever a task's status is "In queue", none of its commands has
\* finished executing: all motion_steps of them are still in the command
\* sequence and none has been removed (the first may be in flight, since a
\* command stays at the front of the sequence until it completes).
C1_InQueueMeansNoneFinished ==
    \A id \in TaskIds :
        Status(id) = "In queue" =>
            /\ Sliced(id)
            /\ popped[id] = 0
            /\ Remaining(id) = tasks[id].motion_steps

\* a task reported "In queue" while the executor is part-way through its first command
C1_Witness ==
    \E id \in TaskIds :
        /\ Status(id) = "In queue"
        /\ InFlight /\ ticks >= 1 /\ motion_stack[1].task_id = id

----------------------------------------------------------------------------
(* C2 *)

\* C2: on the loop iteration that finishes a Move, the robot's frame position
\* and tool offset are the Move's target values (here: up to Tolerance, which
\* the rounding of a float never reaches).
C2_MoveEndsOnTarget ==
    done.kind = "Move" =>
        /\ NearTriple(frame_location, done.target[1])
        /\ NearTriple(tool_location, done.target[2])

\* 0.3, the tool displacement of the claim
ThreeTenths == F(3, 10)

\* C2, the tick count: a Move that took the tool 0.3 along x (up to Tolerance)
\* and left y, z and the frame where they were has been removed on the 3rd
\* tick after it was taken.
C2_ThreeTicksForThreeTenths ==
    ( /\ done.kind = "Move"
      /\ done.from[1] = done.target[1]
      /\ done.from[2][2] = done.target[2][2]
      /\ done.from[2][3] = done.target[2][3]
      /\ Near(FAbs(FSub(done.target[2][1], done.from[2][1])), ThreeTenths) )
        => done.ticks = 3

----------------------------------------------------------------------------
(* C3 *)

\* C3: a task that has not been sliced successfully is still "Awaiting slicing"
\* and no command tagged with its id is in the command sequence, also after a
\* slice of it that found no reachable point.
C3_FailedSliceAppendsNothing ==
    \A id \in TaskIds :
        ~Sliced(id) => Status(id) = "Awaiting slicing" /\ Remaining(id) = 0

----------------------------------------------------------------------------
(* C4 *)

\* C4: while commands of sliced tasks remain in the sequence (and no task
\* awaits slicing, no slice has failed), the executor can still be ticked:
\* the script has not been ended by an exception, whatever Move is in flight.
C4_QueueKeepsDraining ==
    ( /\ motion_stack # <<>>
      /\ \A id \in TaskIds : (InTaskStack(id) \/ Remaining(id) > 0) => Sliced(id) )
        => error = "none"

----------------------------------------------------------------------------
(* C5 *)

\* C5: no step moves a task's status to an earlier stage of
\* Awaiting slicing -> In queue -> In progress -> Complete.
C5_StatusMonotonic ==
    [][\A id \in TaskIds : Rank(tasks'[id].task_status) >= Rank(tasks[id].task_status)]_vars

\* one task has run through all four stages while the other is in progress
C5_Witness ==
    \E a, b \in TaskIds :
        /\ Status(a) = "Complete" /\ popped[a] = tasks[a].motion_steps
        /\ Status(b) = "In progress"

----------------------------------------------------------------------------
(* C6 *)

\* C6: once a task is sliced, motion_steps equals the number of its commands
\* still in the sequence plus the number already removed; motion_steps never
\* changes afterwards and the remaining count never increases.
C6_Conservation ==
    [][\A id \in TaskIds :
        /\ Sliced(id)' => tasks'[id].motion_steps = Remaining(id)' + popped'[id]
        /\ Sliced(id) =>
              /\ tasks'[id].motion_steps = tasks[id].motion_steps
              /\ Remaining(id)' <= Remaining(id)]_vars

\* an active task part of whose commands have been removed and part remain
C6_Witness ==
    \E id \in TaskIds :
        InTaskStack(id) /\ Sliced(id) /\ popped[id] >= 3 /\ Remaining(id) >= 3

----------------------------------------------------------------------------
(* C7 *)

\* C7: the step that slices a task appends exactly 2 + 4*k commands, all tagged
\* with the task's id, and sets motion_steps to that number, where k >= 1 is
\* the number of the task's target points inside the band; a Point task gives
\* 6, a fully reachable (nx, ny) grid gives 2 + 4*nx*ny.
C7_SliceCount ==
    [][\A id \in TaskIds :
        (~Sliced(id) /\ Sliced(id)') =>
            LET k == ReachableCount(id)
                n == Len(motion_stack)
                g == tasks[id].grid_points
            IN  /\ k >= 1
                /\ Len(motion_stack') = n + 2 + 4 * k
                /\ SubSeq(motion_stack', 1, n) = motion_stack
                /\ \A j \in (n + 1)..Len(motion_stack') : motion_stack'[j].task_id = id
                /\ tasks'[id].motion_steps = 2 + 4 * k
                /\ tasks[id].location_type = "point" => tasks'[id].motion_steps = 6
                /\ (tasks[id].location_type = "grid" /\ k = g[1] * g[2])
                      => tasks'[id].motion_steps = 2 + 4 * g[1] * g[2]]_vars

\* a sliced grid task one of whose two target points lay outside the band
C7_Witness ==
    \E id \in TaskIds :
        /\ tasks[id].location_type = "grid"
        /\ Len(task_locations(tasks[id])) = 2
        /\ tasks[id].motion_steps = 6
        /\ Remaining(id) = 6

----------------------------------------------------------------------------
(* C8 *)

\* the reachable target points of a task, in generation order
ReachablePoints(id) == SelectSeq(task_locations(tasks[id]), InBand)

\* mean x of the points, less half the frame width
CentredFrameX(pts) ==
    FSub(FDiv(SumCoord(pts, 1), FInt(Len(pts))), FDiv(dimensions[1], FInt(2)))

IsMove(c, id) == ~c.tool /\ c.task_id = id

\* C8: the commands appended by the step that slices a task are, in order: the
\* neutral Move (tool y = 0, tool z = height, frame position of the tail), the
\* frame-centring Move (frame x = centroid x - width/2, tool raised), then for
\* each reachable point in generation order: Move over the point at full
\* height, Move down to z = 0, ToolFire, Move back up, all at the centred
\* frame x and all tagged with the task's id.
C8_SliceOrder ==
    [][\A id \in TaskIds :
        (~Sliced(id) /\ Sliced(id)') =>
            LET n == Len(motion_stack)
                ms == motion_stack'
                pts == ReachablePoints(id)
                cx == CentredFrameX(pts)
                H == dimensions[3]
                tail_frame == IF n = 0 THEN <<frame_location[1], frame_location[2]>>
                              ELSE <<motion_stack[n].p[4], motion_stack[n].p[5]>>
            IN  /\ IsMove(ms[n + 1], id)
                /\ ms[n + 1].p[2] = Zero /\ ms[n + 1].p[3] = H
                /\ <<ms[n + 1].p[4], ms[n + 1].p[5]>> = tail_frame
                /\ IsMove(ms[n + 2], id)
                /\ ms[n + 2].p[3] = H /\ ms[n + 2].p[4] = cx
                /\ \A j \in 1..Len(pts) :
                      LET b == n + 2 + 4 * (j - 1)
                      IN  /\ IsMove(ms[b + 1], id)
                          /\ ms[b + 1].p[1] = FSub(pts[j][1], cx)
                          /\ ms[b + 1].p[2] = pts[j][2]
                          /\ ms[b + 1].p[3] = H /\ ms[b + 1].p[4] = cx
                          /\ IsMove(ms[b + 2], id)
                          /\ ms[b + 2].p[1] = ms[b + 1].p[1]
                          /\ ms[b + 2].p[2] = ms[b + 1].p[2]
                          /\ ms[b + 2].p[3] = Zero /\ ms[b + 2].p[4] = cx
                          /\ ms[b + 3].tool /\ ms[b + 3].task_id = id
                          /\ ms[b + 4] = ms[b + 1]]_vars

\* a task with two reachable points sliced behind the commands of another task
C8_Witness ==
    \E id \in TaskIds :
        /\ tasks[id].motion_steps = 10 /\ Remaining(id) = 10
        /\ Len(motion_stack) > 10
        /\ motion_stack[Len(motion_stack) - 5].tool

----------------------------------------------------------------------------
(* C9 *)

\* C9: a refresh (update_position) made while an admitted task has not been
\* sliced and has no command in the sequence completes without error and
\* leaves that task in the active set with status "Awaiting slicing".
C9_RefreshKeepsUnslicedTask ==
    [][\A id \in TaskIds :
        (update_position /\ InTaskStack(id) /\ ~Sliced(id) /\ Remaining(id) = 0) =>
            /\ error' = "none"
            /\ InTaskStack(id)'
            /\ tasks'[id].task_status = "Awaiting slicing"]_vars

----------------------------------------------------------------------------
(* C10 *)

\* C10: a ToolFire command is removed on exactly the 5th executor step after
\* the executor took it, and never stays in flight beyond that.
C10_ToolFireTakesFiveTicks ==
    /\ done.kind = "Tool" => done.ticks = ToolSteps /\ steps_done = 0
    /\ tool_active => ticks < ToolSteps /\ motion_stack[1].tool

\* a ToolFire has just been removed and the Move after it taken
C10_Witness ==
    done.kind = "Tool" /\ ~tool_active /\ next_location # <<>>

----------------------------------------------------------------------------
(* C11 *)

\* a step that runs update_task_queue: update_position itself, or a loop
\* iteration that gets as far as plot_robot (line 274)
RefreshStep ==
    \/ update_position
    \/ \E event \in Events : main_loop(event) /\ error' # "ZeroDivisionError"

\* C11: every refresh removes from the active set exactly the sliced tasks
\* with no command left in the sequence (a task with a command waiting or
\* executing stays), and after it no active task has status "Complete".
C11_RemovedAtFirstEmptyRefresh ==
    [][RefreshStep =>
        \A id \in TaskIds :
            (Sliced(id) /\ InTaskStack(id)) =>
                /\ InTaskStack(id)' <=> Remaining(id)' > 0
                /\ InTaskStack(id)' => tasks'[id].task_status # "Complete"]_vars

\* the same, for the refreshes that return normally
C11_ReturningRefreshRemoves ==
    [][(RefreshStep /\ error' = "none") =>
        \A id \in TaskIds :
            (Sliced(id) /\ InTaskStack(id)) =>
                /\ InTaskStack(id)' <=> Remaining(id)' > 0
                /\ InTaskStack(id)' => tasks'[id].task_status # "Complete"]_vars

----------------------------------------------------------------------------
(* C12 *)

\* C12: update_task_queue is idempotent: in a state where every active task
\* has been sliced, the result of a refresh is left as it is by a second
\* refresh made at once (same active tasks in the same order, same status
\* for every task, no error).
C12_RefreshIdempotent ==
    [][(RefreshStep /\ \A id \in TaskIds : InTaskStack(id) => Sliced(id)) =>
        LET again == update_task_queue(tasks', task_stack', motion_stack')
        IN  /\ again.error = "none"
            /\ again.task_stack = task_stack'
            /\ \A id \in TaskIds :
                  again.tasks[id].task_status = tasks'[id].task_status]_vars

\* the refresh of the last iteration has removed a completed task and left
\* the task behind it "In queue"
C12_Witness ==
    \E a, b \in TaskIds :
        /\ done.task_id = a /\ Status(a) = "Complete" /\ ~InTaskStack(a)
        /\ InTaskStack(b) /\ Sliced(b) /\ Status(b) = "In queue"

----------------------------------------------------------------------------
(* C13 *)

\* start + fraction * (target - start), for a frame or tool triple
OnLine(from, to, fraction) ==
    [j \in 1..3 |-> FAdd(from[j], FMul(fraction, FSub(to[j], from[j])))]

\* C13: while a Move is executing, after the tick that makes steps_done = k
\* (of steps_required = N) the frame position and the tool offset are
\* start + (k/N) * (target - start) up to Tolerance, start being
\* previous_location as it was when the Move was taken.
C13_LinearInterpolation ==
    (error = "none" /\ next_location # <<>> /\ ~tool_active /\ steps_done >= 1) =>
        LET fraction == FDiv(FInt(steps_done), steps_required)
        IN  /\ NearTriple(frame_location, OnLine(start[1], next_location[1], fraction))
            /\ NearTriple(tool_location, OnLine(start[2], next_location[2], fraction))

----------------------------------------------------------------------------
(* C14 *)

\* largest travel of one axis of a group (frame or tool) between two triples
GroupTravel(from, to) ==
    FMax3(FAbs(FSub(to[1], from[1])), FAbs(FSub(to[2], from[2])),
          FAbs(FSub(to[3], from[3])))

\* C14: the steps_required of the Move in flight is max_tool_distance/0.1 when
\* max_tool_distance > max_frame_distance and max_frame_distance/0.2
\* otherwise, and it is at least max_tool_distance/0.1 and at least
\* max_frame_distance/0.2 (distances from the position recorded when the
\* Move was taken to its target).
C14_StepsCoverSlowerGroup ==
    (next_location # <<>> /\ ~tool_active) =>
        LET max_frame_distance == GroupTravel(start[1], next_location[1])
            max_tool_distance == GroupTravel(start[2], next_location[2])
            tool_steps == FDiv(max_tool_distance, tool_speed)
            frame_steps == FDiv(max_frame_distance, frame_speed)
        IN  /\ FLt(max_frame_distance, max_tool_distance) => steps_required = tool_steps
            /\ ~FLt(max_frame_distance, max_tool_distance) => steps_required = frame_steps
            /\ FLe(tool_steps, steps_required)
            /\ FLe(frame_steps, steps_required)

\* the first two conjuncts alone: the value the code assigns
C14_StepsAsAssigned ==
    (next_location # <<>> /\ ~tool_active) =>
        LET max_frame_distance == GroupTravel(start[1], next_location[1])
            max_tool_distance == GroupTravel(start[2], next_location[2])
        IN  steps_required =
                IF FLt(max_frame_distance, max_tool_distance)
                THEN FDiv(max_tool_distance, tool_speed)
                ELSE FDiv(max_frame_distance, frame_speed)

----------------------------------------------------------------------------
(* C15 *)

\* the command at the front is the one the executor has taken
FrontIsInFlight ==
    /\ motion_stack # <<>>
    /\ IF motion_stack[1].tool
       THEN tool_active /\ next_location = <<>>
       ELSE ~tool_active /\ next_location = location_of(motion_stack[1])

\* C15: motion_stack is a strict FIFO.  A step leaves it unchanged, or appends
\* at the tail (the old sequence is kept as a prefix), or removes the front
\* element; the front is removed only by the executor step on which the
\* command in flight -- the front one -- reaches its steps_required; whatever
\* the executor has in flight is the front command.
C15_StrictFifo ==
    [][/\ \/ motion_stack' = motion_stack
          \/ /\ Len(motion_stack') > Len(motion_stack)
             /\ SubSeq(motion_stack', 1, Len(motion_stack)) = motion_stack
          \/ /\ motion_stack # <<>>
             /\ motion_stack' = Tail(motion_stack)
             /\ FrontIsInFlight
             /\ sim_running
             /\ FLe(steps_required, FInt(ticks + 1))
             /\ done'.kind = (IF motion_stack[1].tool THEN "Tool" ELSE "Move")
       /\ InFlight' => FrontIsInFlight']_vars

\* the executor is part-way through a command of one task, has removed earlier
\* commands of it, and the commands of another task wait at the tail
C15_Witness ==
    /\ InFlight /\ ticks >= 1
    /\ \E a, b \in TaskIds :
        /\ a # b
        /\ motion_stack[1].task_id = a /\ popped[a] >= 2
        /\ motion_stack[Len(motion_stack)].task_id = b /\ popped[b] = 0

----------------------------------------------------------------------------
(* C16 *)

FMin(a, b) == IF FLt(b, a) THEN b ELSE a

\* x between the two bounds, whichever is the smaller
FBetween(x, a, b) == FLe(FMin(a, b), x) /\ FLe(x, FMax(a, b))

\* pts are nx*ny points, the first at c0, spaced by sx and sy
SpacedFrom(pts, c0, nx, ny, sx, sy) ==
    /\ Len(pts) = nx * ny
    /\ pts[1] = c0
    /\ \A i \in 0..(nx - 1) : \A j \in 0..(ny - 1) :
          pts[i * ny + j + 1] =
              <<FAdd(c0[1], FMul(FInt(i), sx)), FAdd(c0[2], FMul(FInt(j), sy))>>

\* the points generated for grid task id are nx*ny, the first at c0, spaced by
\* |c1 - c0| / count on each axis
GridAsStated(id) ==
    SpacedFrom(task_locations(tasks[id]), tasks[id].location[1],
               tasks[id].grid_points[1], tasks[id].grid_points[2],
               FDiv(FAbs(FSub(tasks[id].location[2][1], tasks[id].location[1][1])),
                    FInt(tasks[id].grid_points[1])),
               FDiv(FAbs(FSub(tasks[id].location[2][2], tasks[id].location[1][2])),
                    FInt(tasks[id].grid_points[2])))

\* every point of pts lies in the box with the corners c0 and c1
InsideBox(pts, c0, c1) ==
    \A k \in 1..Len(pts) :
        FBetween(pts[k][1], c0[1], c1[1]) /\ FBetween(pts[k][2], c0[2], c1[2])

\* every generated point of grid task id lies inside its bounding box
GridInsideBox(id) ==
    InsideBox(task_locations(tasks[id]), tasks[id].location[1], tasks[id].location[2])

\* C16: for a sliced grid task with corners c0, c1 in either order and counts
\* (nx, ny), slicing has generated exactly nx*ny points, the first at c0,
\* spaced by |c1 - c0| / count on each axis, all inside the bounding box.
C16_GridInsideBox ==
    \A id \in TaskIds :
        (Sliced(id) /\ tasks[id].location_type = "grid") =>
            GridAsStated(id) /\ GridInsideBox(id)

\* the same for the boxes whose first corner is the lower left one (count,
\* first point and spacing hold for every order of the corners)
C16_OrderedCornersInsideBox ==
    \A id \in TaskIds :
        (Sliced(id) /\ tasks[id].location_type = "grid") =>
            /\ GridAsStated(id)
            /\ ( /\ FLe(tasks[id].location[1][1], tasks[id].location[2][1])
                 /\ FLe(tasks[id].location[1][2], tasks[id].location[2][2]) )
                  => GridInsideBox(id)

----------------------------------------------------------------------------
(* C17 *)

\* C17: no step (admit, slice, refresh, loop iteration) changes the robot's
\* frame y, and every Move in the command sequence has the robot's frame y as
\* its frame-y target.
C17_FrameYFixed ==
    [][/\ frame_location'[2] = frame_location[2]
       /\ \A k \in 1..Len(motion_stack') :
             ~motion_stack'[k].tool => motion_stack'[k].p[5] = frame_location'[2]]_vars

\* a frame at a y other than 0 that has been moved along x, with Moves of a
\* task done and others still waiting
C17_Witness ==
    /\ motion_stack # <<>>
    /\ frame_location[2] # Zero
    /\ frame_location[1] # Zero
    /\ \E id \in TaskIds : popped[id] >= 3

----------------------------------------------------------------------------
(* C18 *)

\* position of a task in the slicing order, 0 if it has not been sliced
SliceRank(id) ==
    IF \E k \in 1..Len(slice_order) : slice_order[k] = id
    THEN CHOOSE k \in 1..Len(slice_order) : slice_order[k] = id
    ELSE 0

\* the commands of each sliced task are one contiguous block, and the blocks
\* stand in slicing order
BlocksInSliceOrder(ms) ==
    \A j, k \in 1..Len(ms) :
        (j < k /\ Sliced(ms[j].task_id) /\ Sliced(ms[k].task_id)) =>
            SliceRank(ms[j].task_id) <= SliceRank(ms[k].task_id)

\* C18: tasks execute in slicing order.  In every step the commands of the
\* sliced tasks stand in the sequence as contiguous blocks in slicing order;
\* after every refresh at most one active task is "In progress", every task
\* sliced before it has left the active set and every task sliced after it is
\* "In queue".
C18_SlicingOrder ==
    [][/\ BlocksInSliceOrder(motion_stack)'
       /\ RefreshStep =>
            \A a \in TaskIds :
                (InTaskStack(a)' /\ tasks'[a].task_status = "In progress") =>
                    \A b \in TaskIds \ {a} :
                        /\ ~(InTaskStack(b)' /\ tasks'[b].task_status = "In progress")
                        /\ (Sliced(b)' /\ SliceRank(b)' < SliceRank(a)') => ~InTaskStack(b)'
                        /\ (Sliced(b)' /\ SliceRank(b)' > SliceRank(a)') =>
                              tasks'[b].task_status = "In queue"]_vars

\* task 1 was sliced before task 0 and is in progress, task 0 is in queue
C18_Witness ==
    /\ slice_order = <<1, 0>>
    /\ InTaskStack(1) /\ Status(1) = "In progress"
    /\ InTaskStack(0) /\ Status(0) = "In queue"

\* the task sliced second is in progress after the first has been removed
C18_SecondInProgress ==
    /\ Len(slice_order) = 2
    /\ ~InTaskStack(slice_order[1])
    /\ InTaskStack(slice_order[2]) /\ Status(slice_order[2]) = "In progress"

----------------------------------------------------------------------------
(* C19 *)

\* the world tool point (true_location) at the targets of a Move command
WorldTarget(c) == kinematic(<<c.p[4], c.p[5], Zero>>, <<c.p[1], c.p[2], c.p[3]>>)

\* for each reachable point of the task being sliced, the world tool point at
\* the targets of the Move just before its ToolFire is (p.x, p.y, 0)
FiresAtPoints(id) ==
    LET n == Len(motion_stack)
        ms == motion_stack'
        pts == ReachablePoints(id)
    IN  \A j \in 1..Len(pts) :
            LET b == n + 2 + 4 * (j - 1)
            IN  /\ ms[b + 3].tool /\ ~ms[b + 2].tool
                /\ NearTriple(WorldTarget(ms[b + 2]), <<pts[j][1], pts[j][2], Zero>>)

\* C19: with rotation 0 and any fixed frame y, the Move that immediately
\* precedes the ToolFire of a reachable point p has targets whose world tool
\* point (frame position + tool offset) is (p.x, p.y, 0), up to Tolerance.
C19_FiresAtPoint ==
    [][\A id \in TaskIds : (~Sliced(id) /\ Sliced(id)') => FiresAtPoints(id)]_vars

\* the same for a frame at y = 0 only
C19_FiresAtPointFrameYZero ==
    [][\A id \in TaskIds :
        (~Sliced(id) /\ Sliced(id)' /\ frame_location[2] = Zero) => FiresAtPoints(id)]_vars

----------------------------------------------------------------------------
(* C20 *)

\* C20: in the commands appended by a slice, the frame-centring Move (the
\* second) has the tool x, y and z targets of the neutral Move before it and
\* the same frame y, so it moves only the frame along x; also when commands
\* of earlier tasks are still queued or executing.
C20_CentringKeepsTool ==
    [][\A id \in TaskIds :
        (~Sliced(id) /\ Sliced(id)') =>
            LET n == Len(motion_stack)
                neutral == motion_stack'[n + 1]
                centring == motion_stack'[n + 2]
            IN  /\ centring.p[1] = neutral.p[1]
                /\ centring.p[2] = neutral.p[2]
                /\ centring.p[3] = neutral.p[3]
                /\ centring.p[5] = neutral.p[5]]_vars

\* the same for a task sliced while the command sequence is empty
C20_CentringKeepsToolOnEmptyQueue ==
    [][\A id \in TaskIds :
        (~Sliced(id) /\ Sliced(id)' /\ motion_stack = <<>>) =>
            LET neutral == motion_stack'[1]
                centring == motion_stack'[2]
            IN  /\ centring.p[1] = neutral.p[1]
                /\ centring.p[2] = neutral.p[2]
                /\ centring.p[3] = neutral.p[3]
                /\ centring.p[5] = neutral.p[5]]_vars

====
